---------------------------- MODULE Spec2Model ----------------------------
(***************************************************************************)
(* Model of hivemind.moe.server.connection_handler.ConnectionHandler:     *)
(* the handler process' run loop (readiness future, joining the transport, *)
(* registering the RPC handlers, serving) and the five RPC procedures      *)
(* (rpc_info, rpc_forward, rpc_forward_stream, rpc_backward,               *)
(* rpc_backward_stream) with the request unpacker, the worker pools and    *)
(* the response fragments.                                                 *)
(***************************************************************************)
EXTENDS Integers, Sequences, FiniteSets, TLC

VARIABLES
    runpc,      \* position of ConnectionHandler.run
    ready,      \* self.ready: the MPFuture handed to the supervisor
    readySets,  \* number of set_result / set_exception calls made on self.ready
    registered, \* whether add_p2p_handlers has registered the rpc_* procedures
    experts,    \* self.experts: uid -> ExpertBackend
    pools,      \* the TaskPools: pool id -> sequence of submitted tasks
    call,       \* the RPC tasks of the event loop: call id -> task state
    budget      \* request messages the transport may still deliver

vars == <<runpc, ready, readySets, registered, experts, pools, call, budget>>

----------------------------------------------------------------------------
(* Bounds *)

\* request messages (unary requests and stream frames) delivered in one run
MaxFrames == 3

\* the transport's maximum message size, scaled down to buffer elements
MaxMsgSize == 2

\* request messages delivered in one run of the fair specification
FairFrames == 2

----------------------------------------------------------------------------
(* Data *)

Calls == {1, 2}

Registered == {"e0", "e1"}

Uids == Registered \cup {"ghost"}

None == "None"

Directions == {"forward", "backward"}

PoolIds == Registered \X Directions

KnownCompressions == {"NONE", "FLOAT16"}

\* largest magnitude the 16-bit compression keeps (scaled down)
FP16_MAX == 4

DEFAULT_MAX_MSG_SIZE == MaxMsgSize

Min(a, b) == IF a < b THEN a ELSE b

RECURSIVE Flatten(_)
Flatten(ss) == IF ss = <<>> THEN <<>> ELSE Head(ss) \o Flatten(Tail(ss))

\* runtime_pb2.Tensor
WireTensor(dtype, compression, size, chunks, buffer) ==
    [dtype |-> dtype, compression |-> compression, size |-> size,
     chunks |-> chunks, buffer |-> buffer]

\* hivemind.compression.serialize_torch_tensor
serialize_torch_tensor(t, compression) ==
    WireTensor("float32", compression, Len(t), 0,
               IF compression = "FLOAT16"
               THEN [i \in 1..Len(t) |-> Min(t[i], FP16_MAX)]
               ELSE t)

\* deserialize_torch_tensor raises on a wire tensor it cannot decode
Malformed(w) == w.compression \notin KnownCompressions \/ w.size # Len(w.buffer)

\* hivemind.compression.deserialize_torch_tensor
deserialize_torch_tensor(w) == [i \in 1..w.size |-> w.buffer[i]]

\* hivemind.utils.grpc.split_for_streaming
split_for_streaming(w, chunk_size) ==
    LET n == Len(w.buffer)
        num_chunks == (n + chunk_size - 1) \div chunk_size
        piece(k) == SubSeq(w.buffer, (k - 1) * chunk_size + 1, Min(k * chunk_size, n))
    IN  [k \in 1..(IF num_chunks = 0 THEN 1 ELSE num_chunks) |->
            IF k = 1
            THEN WireTensor(w.dtype, w.compression, w.size, num_chunks, piece(1))
            ELSE WireTensor("", "NONE", 0, 0, piece(k))]

\* BatchTensorDescriptor and tuples of them
Descr(compression) == [tag |-> "descr", compression |-> compression, items |-> <<>>]
Tuple(items) == [tag |-> "tuple", compression |-> "", items |-> items]

\* hivemind.utils.nested_flatten
RECURSIVE nested_flatten(_)
nested_flatten(schema) ==
    IF schema.tag = "descr"
    THEN <<schema>>
    ELSE Flatten([i \in 1..Len(schema.items) |-> nested_flatten(schema.items[i])])

\* the factor a pool's expert scales its inputs by
Factor(p) ==
    CASE p = <<"e0", "forward">> -> 2
      [] p = <<"e0", "backward">> -> 3
      [] p = <<"e1", "forward">> -> 5
      [] OTHER -> 7

\* what a TaskPool's future resolves to for one submitted task
TaskResult(p, args) ==
    [i \in 1..Len(args) |-> [j \in 1..Len(args[i]) |-> Factor(p) * args[i][j]]]

\* ExpertBackend.get_info
get_info(expert) ==
    [outputs_schema |-> expert.outputs_schema, forward_pool |-> expert.forward_pool]

\* MSGPackSerializer.dumps
Dumps(obj) == <<"msgpack", obj>>

\* the registry handed to ConnectionHandler.__init__
Registry ==
    [u \in Registered |->
        [forward_pool |-> <<u, "forward">>,
         backward_pool |-> <<u, "backward">>,
         outputs_schema |->
            IF u = "e0" THEN Descr("FLOAT16")
            ELSE Tuple(<<Descr("NONE"), Tuple(<<Descr("FLOAT16")>>)>>),
         grad_inputs_schema |->
            IF u = "e0" THEN Tuple(<<Descr("NONE"), Descr("FLOAT16")>>)
            ELSE Descr("NONE")]]

\* wire tensors the peers send
W1 == serialize_torch_tensor(<<1>>, "NONE")
W2 == serialize_torch_tensor(<<2, 3>>, "NONE")
WBad == WireTensor("float32", "UNKNOWN", 1, 0, <<1>>)

\* tensor lists of the unary requests, and of the requests of a stream
UnaryPayloads == {<<>>, <<W1>>, <<W2, W1>>, <<WBad>>}
StreamPayloads == {<<>>, <<W1>>, <<W2>>, <<WBad>>}

\* runtime_pb2.ExpertRequest
UnaryRequests == [uid : Uids, tensors : UnaryPayloads]
StreamRequests == [uid : Uids, tensors : StreamPayloads]

\* runtime_pb2.ExpertResponse
ExpertResponse(tensors) == [tensors |-> tensors]

----------------------------------------------------------------------------
(* MPFuture *)

PendingFuture == [state |-> "PENDING", value |-> None]

\* MPFuture.set_result: a future that is already resolved rejects the write
MPFuture_set_result(f, v) ==
    IF f.state = "PENDING"
    THEN [fut |-> [state |-> "RESULT", value |-> v], raised |-> FALSE]
    ELSE [fut |-> f, raised |-> TRUE]

\* MPFuture.set_exception
MPFuture_set_exception(f, e) ==
    IF f.state = "PENDING"
    THEN [fut |-> [state |-> "EXCEPTION", value |-> e], raised |-> FALSE]
    ELSE [fut |-> f, raised |-> TRUE]

----------------------------------------------------------------------------
(* Initial state: after ConnectionHandler.__init__ *)

IdleCall ==
    [kind |-> "none", pc |-> "idle", unpacker_uid |-> None, requests |-> <<>>,
     parts |-> <<>>, fut |-> [state |-> "NONE", result |-> <<>>],
     output_split |-> <<>>, resp |-> <<>>, error |-> None]

InitWith(n) ==
    /\ runpc = "init"
    /\ ready = PendingFuture
    /\ readySets = 0
    /\ registered = FALSE
    /\ experts = Registry
    /\ pools = [p \in PoolIds |-> <<>>]
    /\ call = [c \in Calls |-> IdleCall]
    /\ budget = n

Init == InitWith(MaxFrames)

InitFair == InitWith(FairFrames)

----------------------------------------------------------------------------
(* ConnectionHandler.run *)

Running == runpc \in {"replicate", "register", "serving"}

\* run, up to the start of the loop: self.ready.set_result(None) comes before
\* loop.run_until_complete(_run())
RunStart ==
    /\ runpc = "init"
    /\ LET r == MPFuture_set_result(ready, None)
       IN  /\ ready' = r.fut
           /\ runpc' = IF r.raised THEN "crashed" ELSE "replicate"
    /\ readySets' = readySets + 1
    /\ UNCHANGED <<registered, experts, pools, call, budget>>

\* self._p2p = await self.dht.replicate_p2p() returns
ReplicateOk ==
    /\ runpc = "replicate"
    /\ runpc' = "register"
    /\ UNCHANGED <<ready, readySets, registered, experts, pools, call, budget>>

\* await self.add_p2p_handlers(self._p2p, balanced=True) returns; _run then
\* waits on asyncio.Future() and the loop serves the registered handlers
RegisterOk ==
    /\ runpc = "register"
    /\ runpc' = "serving"
    /\ registered' = TRUE
    /\ UNCHANGED <<ready, readySets, experts, pools, call, budget>>

\* replicate_p2p or add_p2p_handlers raises: the except clause calls
\* self.ready.set_exception(e); if that raises, the error leaves _run and run
JoinRaise ==
    /\ runpc \in {"replicate", "register"}
    /\ LET r == MPFuture_set_exception(ready, "StartupError")
       IN  /\ ready' = r.fut
           /\ runpc' = IF r.raised THEN "crashed" ELSE "failed"
    /\ readySets' = readySets + 1
    /\ UNCHANGED <<registered, experts, pools, call, budget>>

\* mutant: the interrupt is caught by the except clause of _run and written
\* to the readiness future
Interrupt_reported ==
    /\ Running
    /\ runpc' = "interrupted"
    /\ ready' = MPFuture_set_exception(ready, "KeyboardInterrupt").fut
    /\ readySets' = readySets + 1
    /\ UNCHANGED <<registered, experts, pools, call, budget>>

\* KeyboardInterrupt during loop.run_until_complete: logged, run returns
Interrupt ==
    /\ Running
    /\ runpc' = "interrupted"
    /\ UNCHANGED <<ready, readySets, registered, experts, pools, call, budget>>

----------------------------------------------------------------------------
(* The RPC procedures *)

\* the transport can hand call c to the handler: the loop is serving and the
\* calls are numbered in the order they arrive
Arrives(c) ==
    /\ runpc = "serving"
    /\ call[c].pc = "idle"
    /\ \A d \in Calls : d < c => call[d].pc # "idle"

Forward(kind) == kind \in {"forward", "forward_stream"}

Streamed(kind) == kind \in {"forward_stream", "backward_stream"}

\* the uid a call dispatches on: request.uid, or the unpacker's for a stream
CallUid(st) == IF Streamed(st.kind) THEN st.unpacker_uid ELSE st.requests[1].uid

\* mutant: every procedure is handed the backward pool
PoolOf_backward(kind, expert) == expert.backward_pool

\* the pool argument of the _process_inputs call of each procedure
PoolOf(kind, expert) ==
    IF Forward(kind) THEN expert.forward_pool ELSE expert.backward_pool

\* mutant: every procedure is handed the output schema
SchemaOf_outputs(kind, expert) == expert.outputs_schema

\* the schema argument of the _process_inputs call of each procedure
SchemaOf(kind, expert) ==
    IF Forward(kind) THEN expert.outputs_schema ELSE expert.grad_inputs_schema

\* [deserialize_torch_tensor(tensor) for tensor in tensors]
DeserializeAll(tensors) ==
    [i \in 1..Len(tensors) |-> deserialize_torch_tensor(tensors[i])]

AnyMalformed(tensors) == \E i \in 1..Len(tensors) : Malformed(tensors[i])

\* the task fails with an exception; its caller sees a failed call
Fail(st, err) == [st EXCEPT !.pc = "failed", !.error = err]

\* TaskPool.submit_task(*inputs): enqueue the task, return its future
submit_task(p, c, inputs) ==
    [pools EXCEPT ![p] = Append(@, [call |-> c, args |-> inputs])]

\* mutant: an unregistered uid is served by a default expert
Dispatch_default(c, st, uid, tensors) ==
    IF AnyMalformed(tensors)
    THEN /\ call' = [call EXCEPT ![c] = Fail(st, "CodecError")]
         /\ UNCHANGED pools
    ELSE /\ pools' = submit_task(PoolOf(st.kind, experts[IF uid \in DOMAIN experts
                                                         THEN uid ELSE "e0"]),
                                 c, DeserializeAll(tensors))
         /\ call' = [call EXCEPT ![c] =
                        [st EXCEPT !.pc = "await",
                                   !.fut = [state |-> "PENDING", result |-> <<>>]]]

\* mutant: the expert looked up for the first call is kept for the later ones
Dispatch_first(c, st, uid, tensors) ==
    IF AnyMalformed(tensors)
    THEN /\ call' = [call EXCEPT ![c] = Fail(st, "CodecError")]
         /\ UNCHANGED pools
    ELSE IF uid \notin DOMAIN experts
    THEN /\ call' = [call EXCEPT ![c] = Fail(st, "KeyError")]
         /\ UNCHANGED pools
    ELSE /\ pools' = submit_task(
                        PoolOf(st.kind,
                               experts[IF c > 1 /\ call[1].pc \in {"await", "done"}
                                       THEN CallUid(call[1]) ELSE uid]),
                        c, DeserializeAll(tensors))
         /\ call' = [call EXCEPT ![c] =
                        [st EXCEPT !.pc = "await",
                                   !.fut = [state |-> "PENDING", result |-> <<>>]]]

\* mutant: a failed lookup fails every task of the loop
Dispatch_failall(c, st, uid, tensors) ==
    IF AnyMalformed(tensors)
    THEN /\ call' = [call EXCEPT ![c] = Fail(st, "CodecError")]
         /\ UNCHANGED pools
    ELSE IF uid \notin DOMAIN experts
    THEN /\ call' = [d \in Calls |->
                        IF d = c THEN Fail(st, "KeyError")
                        ELSE IF call[d].pc \in {"gather", "await", "emit"}
                        THEN Fail(call[d], "KeyError") ELSE call[d]]
         /\ UNCHANGED pools
    ELSE /\ pools' = submit_task(PoolOf(st.kind, experts[uid]), c, DeserializeAll(tensors))
         /\ call' = [call EXCEPT ![c] =
                        [st EXCEPT !.pc = "await",
                                   !.fut = [state |-> "PENDING", result |-> <<>>]]]

\* the part of a procedure from its inputs to the await in _process_inputs:
\* self.experts[uid], then pool.submit_task(*inputs)
Dispatch(c, st, uid, tensors) ==
    IF AnyMalformed(tensors)
    THEN /\ call' = [call EXCEPT ![c] = Fail(st, "CodecError")]
         /\ UNCHANGED pools
    ELSE IF uid \notin DOMAIN experts
    THEN /\ call' = [call EXCEPT ![c] = Fail(st, "KeyError")]
         /\ UNCHANGED pools
    ELSE /\ pools' = submit_task(PoolOf(st.kind, experts[uid]), c, DeserializeAll(tensors))
         /\ call' = [call EXCEPT ![c] =
                        [st EXCEPT !.pc = "await",
                                   !.fut = [state |-> "PENDING", result |-> <<>>]]]

\* mutant: the lookup is a setdefault, so an unregistered uid gets an entry
rpc_info_setdefault(c, uid) ==
    /\ Arrives(c) /\ budget > 0
    /\ budget' = budget - 1
    /\ experts' = [u \in DOMAIN experts \cup {uid} |->
                      IF u \in DOMAIN experts THEN experts[u] ELSE experts["e0"]]
    /\ call' = [call EXCEPT ![c] =
                   [@ EXCEPT !.kind = "info",
                             !.requests = <<[uid |-> uid, tensors |-> <<>>]>>,
                             !.pc = "done",
                             !.resp = <<[serialized_info |-> Dumps(get_info(experts'[uid]))]>>]]
    /\ UNCHANGED <<runpc, ready, readySets, registered, pools>>

\* rpc_info
rpc_info(c, uid) ==
    /\ Arrives(c) /\ budget > 0
    /\ budget' = budget - 1
    /\ LET st == [call[c] EXCEPT !.kind = "info",
                                 !.requests = <<[uid |-> uid, tensors |-> <<>>]>>]
       IN  call' = [call EXCEPT ![c] =
                IF uid \in DOMAIN experts
                THEN [st EXCEPT !.pc = "done",
                                !.resp = <<[serialized_info |-> Dumps(get_info(experts[uid]))]>>]
                ELSE Fail(st, "KeyError")]
    /\ UNCHANGED <<runpc, ready, readySets, registered, experts, pools>>

\* rpc_forward, up to the await
rpc_forward(c, request) ==
    /\ Arrives(c) /\ budget > 0
    /\ budget' = budget - 1
    /\ Dispatch(c, [call[c] EXCEPT !.kind = "forward", !.requests = <<request>>],
                request.uid, request.tensors)
    /\ UNCHANGED <<runpc, ready, readySets, registered, experts>>

\* rpc_backward, up to the await
rpc_backward(c, request) ==
    /\ Arrives(c) /\ budget > 0
    /\ budget' = budget - 1
    /\ Dispatch(c, [call[c] EXCEPT !.kind = "backward", !.requests = <<request>>],
                request.uid, request.tensors)
    /\ UNCHANGED <<runpc, ready, readySets, registered, experts>>

\* mutant: the unpacker is kept on the handler, so a new stream starts with
\* the uid a stream still being gathered has claimed
rpc_forward_stream_shared(c) ==
    /\ Arrives(c)
    /\ call' = [call EXCEPT ![c] =
                   [@ EXCEPT !.kind = "forward_stream", !.pc = "gather",
                             !.unpacker_uid =
                                 IF \E d \in Calls : call[d].pc = "gather"
                                 THEN call[CHOOSE d \in Calls : call[d].pc = "gather"].unpacker_uid
                                 ELSE None]]
    /\ UNCHANGED <<runpc, ready, readySets, registered, experts, pools, budget>>

\* rpc_forward_stream is called: _gather_inputs makes the unpacker and waits
\* for the first request of the stream
rpc_forward_stream(c) ==
    /\ Arrives(c)
    /\ call' = [call EXCEPT ![c] = [@ EXCEPT !.kind = "forward_stream", !.pc = "gather",
                                             !.unpacker_uid = None]]
    /\ UNCHANGED <<runpc, ready, readySets, registered, experts, pools, budget>>

\* rpc_backward_stream is called
rpc_backward_stream(c) ==
    /\ Arrives(c)
    /\ call' = [call EXCEPT ![c] = [@ EXCEPT !.kind = "backward_stream", !.pc = "gather",
                                             !.unpacker_uid = None]]
    /\ UNCHANGED <<runpc, ready, readySets, registered, experts, pools, budget>>

\* mutant: the uid of the latest request wins and nothing is asserted
RequestUnpacker_lastwins(uid, request) ==
    [uid |-> request.uid, ok |-> TRUE, tensors |-> request.tensors]

\* mutant: the request that sets the uid hands back no tensors
RequestUnpacker_dropfirst(uid, request) ==
    IF uid = None
    THEN [uid |-> request.uid, ok |-> TRUE, tensors |-> <<>>]
    ELSE [uid |-> uid, ok |-> uid = request.uid, tensors |-> request.tensors]

\* _RequestUnpacker.__call__: the uid after the call, whether the assert
\* held, and the tensors returned
RequestUnpacker_call(uid, request) ==
    IF uid = None
    THEN [uid |-> request.uid, ok |-> TRUE, tensors |-> request.tensors]
    ELSE [uid |-> uid, ok |-> uid = request.uid, tensors |-> request.tensors]

\* gather_from_rpc takes the next request of the stream
RecvFrame(c, request) ==
    /\ runpc = "serving" /\ call[c].pc = "gather" /\ budget > 0
    /\ budget' = budget - 1
    /\ LET st == [call[c] EXCEPT !.requests = Append(@, request)]
           u == RequestUnpacker_call(st.unpacker_uid, request)
       IN  call' = [call EXCEPT ![c] =
                IF u.ok
                THEN [st EXCEPT !.unpacker_uid = u.uid, !.parts = @ \o u.tensors]
                ELSE Fail(st, "AssertionError")]
    /\ UNCHANGED <<runpc, ready, readySets, registered, experts, pools>>

\* mutant: the gathered inputs are submitted twice
EndOfStream_twice(c) ==
    /\ runpc = "serving" /\ call[c].pc = "gather"
    /\ IF AnyMalformed(call[c].parts)
       THEN /\ call' = [call EXCEPT ![c] = Fail(call[c], "CodecError")]
            /\ UNCHANGED pools
       ELSE IF call[c].unpacker_uid \notin DOMAIN experts
       THEN /\ call' = [call EXCEPT ![c] = Fail(call[c], "KeyError")]
            /\ UNCHANGED pools
       ELSE /\ \E p \in {PoolOf(call[c].kind, experts[call[c].unpacker_uid])} :
               \E t \in {[call |-> c, args |-> DeserializeAll(call[c].parts)]} :
                  pools' = [pools EXCEPT ![p] = Append(Append(@, t), t)]
            /\ call' = [call EXCEPT ![c] =
                           [@ EXCEPT !.pc = "await",
                                     !.fut = [state |-> "PENDING", result |-> <<>>]]]
    /\ UNCHANGED <<runpc, ready, readySets, registered, experts, budget>>

\* the stream ends: _gather_inputs returns (unpacker.uid, inputs) and the
\* procedure goes on to the await in _process_inputs
EndOfStream(c) ==
    /\ runpc = "serving" /\ call[c].pc = "gather"
    /\ Dispatch(c, call[c], call[c].unpacker_uid, call[c].parts)
    /\ UNCHANGED <<runpc, ready, readySets, registered, experts, budget>>

\* a pool's runtime processes a task and its future is resolved
TaskDone(p, i) ==
    /\ runpc = "serving"
    /\ i \in 1..Len(pools[p])
    /\ LET t == pools[p][i]
       IN  /\ call[t.call].fut.state = "PENDING"
           /\ call' = [call EXCEPT ![t.call].fut =
                          [state |-> "FINISHED", result |-> TaskResult(p, t.args)]]
    /\ UNCHANGED <<runpc, ready, readySets, registered, experts, pools, budget>>

\* _process_inputs after the await: zip the outputs with the flattened schema
process_outputs(outputs, schema) ==
    LET flat == nested_flatten(schema)
    IN  [i \in 1..Min(Len(outputs), Len(flat)) |->
            serialize_torch_tensor(outputs[i], flat[i].compression)]

\* mutant: the parts of the last output tensor come first
output_split_of_lastfirst(tensors) ==
    Flatten([i \in 1..Len(tensors) |->
                split_for_streaming(tensors[Len(tensors) + 1 - i], DEFAULT_MAX_MSG_SIZE \div 2)])

\* mutant: the parts are cut at the transport's whole message size
output_split_of_unhalved(tensors) ==
    Flatten([i \in 1..Len(tensors) |->
                split_for_streaming(tensors[i], DEFAULT_MAX_MSG_SIZE)])

\* output_split of rpc_forward_stream / rpc_backward_stream
output_split_of(tensors) ==
    Flatten([i \in 1..Len(tensors) |->
                split_for_streaming(tensors[i], DEFAULT_MAX_MSG_SIZE \div 2)])

\* the task after it resumes with the future's result: a unary procedure
\* returns its response, a streamed one yields the first part of output_split
Resumed(st, tensors, split) ==
    IF ~Streamed(st.kind)
    THEN [st EXCEPT !.pc = "done", !.resp = <<ExpertResponse(tensors)>>]
    ELSE IF split = <<>>
    THEN [st EXCEPT !.pc = "done"]
    ELSE [st EXCEPT !.output_split = split,
                    !.resp = <<ExpertResponse(<<split[1]>>)>>,
                    !.pc = IF Len(split) = 1 THEN "done" ELSE "emit"]

\* mutant: a task resumes only when no earlier call is waiting for a
\* request or for its future
Resume_blocking(c) ==
    /\ runpc = "serving" /\ call[c].pc = "await" /\ call[c].fut.state = "FINISHED"
    /\ \A d \in Calls : d < c => call[d].pc \notin {"gather", "await"}
    /\ \E tensors \in {process_outputs(call[c].fut.result,
                                       SchemaOf(call[c].kind, experts[CallUid(call[c])]))} :
       \E split \in {output_split_of(tensors)} :
          call' = [call EXCEPT ![c] = Resumed(call[c], tensors, split)]
    /\ UNCHANGED <<runpc, ready, readySets, registered, experts, pools, budget>>

\* the future of call c has resolved and the loop resumes its task
Resume(c) ==
    /\ runpc = "serving" /\ call[c].pc = "await" /\ call[c].fut.state = "FINISHED"
    /\ \E tensors \in {process_outputs(call[c].fut.result,
                                       SchemaOf(call[c].kind, experts[CallUid(call[c])]))} :
       \E split \in {output_split_of(tensors)} :
          call' = [call EXCEPT ![c] = Resumed(call[c], tensors, split)]
    /\ UNCHANGED <<runpc, ready, readySets, registered, experts, pools, budget>>

\* async for part in as_aiter(*output_split): yield the next part
YieldPart(c) ==
    /\ runpc = "serving" /\ call[c].pc = "emit"
    /\ LET st == call[c]
           k == Len(st.resp) + 1
       IN  call' = [call EXCEPT ![c] =
                [st EXCEPT !.resp = Append(@, ExpertResponse(<<st.output_split[k]>>)),
                           !.pc = IF k = Len(st.output_split) THEN "done" ELSE "emit"]]
    /\ UNCHANGED <<runpc, ready, readySets, registered, experts, pools, budget>>

----------------------------------------------------------------------------
(* Specifications *)

Next ==
    \/ RunStart
    \/ ReplicateOk
    \/ RegisterOk
    \/ JoinRaise
    \/ Interrupt
    \/ \E c \in Calls, u \in Uids : rpc_info(c, u)
    \/ \E c \in Calls, r \in UnaryRequests : rpc_forward(c, r)
    \/ \E c \in Calls, r \in UnaryRequests : rpc_backward(c, r)
    \/ \E c \in Calls : rpc_forward_stream(c)
    \/ \E c \in Calls : rpc_backward_stream(c)
    \/ \E c \in Calls, r \in StreamRequests : RecvFrame(c, r)
    \/ \E c \in Calls : EndOfStream(c)
    \/ \E p \in PoolIds, i \in 1..MaxFrames : TaskDone(p, i)
    \/ \E c \in Calls : Resume(c)
    \/ \E c \in Calls : YieldPart(c)

Spec == Init /\ [][Next]_vars

----------------------------------------------------------------------------
(* Fairness: the event loop runs every task that can go on, the transport  *)
(* takes the parts a stream yields, the pools resolve the futures of the   *)
(* tasks submitted to them.  Nothing obliges a peer to send a request or   *)
(* to end a stream, nor the process to be interrupted.                     *)

\* No such step undoes or repeats another, so fairness for the steps taken
\* together is fairness for each.
Progress ==
    \/ \E c \in Calls : Resume(c)
    \/ \E c \in Calls : YieldPart(c)
    \/ \E p \in PoolIds, i \in 1..MaxFrames : TaskDone(p, i)

Fairness == WF_vars(Progress)

FairSpec == InitFair /\ [][Next]_vars /\ Fairness

\* The loop alone: it runs every task that can go on, while a pool may leave
\* a future unresolved for ever and a peer may never send the next request.
LoopProgress ==
    \/ \E c \in Calls : Resume(c)
    \/ \E c \in Calls : YieldPart(c)

StallSpec == InitFair /\ [][Next]_vars /\ WF_vars(LoopProgress)

----------------------------------------------------------------------------
(* Vocabulary of the properties *)

\* the places <<pool, index>> of the tasks call c has submitted
Submissions(c) ==
    {x \in UNION {{<<p, i>> : i \in DOMAIN pools[p]} : p \in PoolIds} :
        pools[x[1]][x[2]].call = c}

\* the tensors a peer put into the requests of call c, in arrival order
SentTensors(c) == Flatten([i \in DOMAIN call[c].requests |-> call[c].requests[i].tensors])

\* the values the peer's tensors hold
SentValues(c) == [i \in DOMAIN SentTensors(c) |-> SentTensors(c)[i].buffer]

Exited == runpc \in {"failed", "crashed", "interrupted"}

----------------------------------------------------------------------------
(* Lifecycle *)

\* C1: the readiness signal is resolved exactly once in every execution of
\* the run loop: no second set_result / set_exception is ever attempted, and
\* a loop that serves or has exited has resolved it once.
C1_ReadyResolvedExactlyOnce ==
    /\ readySets <= 1
    /\ (runpc = "serving" \/ Exited) => readySets = 1

\* C2: the readiness signal holds success only once the transport has been
\* replicated and the procedures have been registered.
C2_ReadyOnlyAfterRegistration ==
    ready.state = "RESULT" => registered

\* C3: when joining or registering raises, the run loop exits and the value
\* the supervisor reads from the readiness signal is that startup error.
C3_StartupErrorReported ==
    runpc \in {"failed", "crashed"} =>
        ready = [state |-> "EXCEPTION", value |-> "StartupError"]

----------------------------------------------------------------------------
(* Dispatch *)

\* C4: a completed unary forward call to a registered uid has made exactly
\* one submission, to the forward pool of its uid, carrying the values of
\* its request's tensors; no backward pool and no other uid's pool holds a
\* task of it.
C4_ForwardSubmitsOnce ==
    \A c \in Calls :
        (call[c].kind = "forward" /\ call[c].pc = "done") =>
            LET r == call[c].requests[1]
            IN  /\ r.uid \in Registered
                /\ Cardinality(Submissions(c)) = 1
                /\ \A x \in Submissions(c) :
                      /\ x[1] = <<r.uid, "forward">>
                      /\ pools[x[1]][x[2]].args = [i \in DOMAIN r.tensors |-> r.tensors[i].buffer]

C4_Witness ==
    \E c \in Calls :
        /\ call[c].kind = "forward" /\ call[c].pc = "done"
        /\ call[c].requests[1] = [uid |-> "e1", tensors |-> <<W2, W1>>]
        /\ pools[<<"e1", "forward">>] = <<[call |-> c, args |-> <<<<2, 3>>, <<1>>>>]>>

\* call state st belongs to a call whose requests all name one uid, and
\* that uid is not registered
UnknownUid(st) ==
    /\ st.requests # <<>>
    /\ st.requests[1].uid \notin Registered
    /\ \A i \in DOMAIN st.requests : st.requests[i].uid = st.requests[1].uid

\* the call has left its input behind: a unary call has arrived, a streamed
\* call has seen the end of its stream or has failed
Dispatched(st) == st.pc \notin {"idle", "gather"}

\* C5 as claimed: a call to an unregistered uid fails with the lookup error
\* (UnknownUnit) and submits nothing.
C5_UnknownUidIsKeyError ==
    \A c \in Calls :
        (UnknownUid(call[c]) /\ Dispatched(call[c])) =>
            /\ call[c].pc = "failed" /\ call[c].error = "KeyError"
            /\ Submissions(c) = {}

C5_Fails ==
    \A c \in Calls :
        (UnknownUid(call[c]) /\ Dispatched(call[c])) =>
            /\ call[c].pc = "failed"
            /\ call[c].error =
                  IF \E i \in DOMAIN SentTensors(c) : Malformed(SentTensors(c)[i])
                  THEN "CodecError" ELSE "KeyError"
            /\ Submissions(c) = {}

C5_FailureIsLocal ==
    \A c \in Calls :
        (call[c].pc # "failed" /\ call'[c].pc = "failed" /\ UnknownUid(call'[c])) =>
            /\ runpc = "serving" /\ runpc' = "serving"
            /\ pools' = pools
            /\ \A d \in Calls \ {c} : call'[d] = call[d]

\* call d has all its requests and waits for its future or is part-way
\* through its response: nothing but the pool and the loop stands between it
\* and its completion
InFlight(d) == call[d].pc \in {"await", "emit"}

\* another call in flight when a call to an unregistered uid has failed goes
\* on to complete (unless the process is interrupted)
C5_OthersComplete ==
    \A c, d \in Calls :
        (c # d /\ UnknownUid(call[c]) /\ call[c].pc = "failed" /\ InFlight(d))
            ~> (call[d].pc = "done" \/ runpc # "serving")

\* C5 (amended): a call to an unregistered uid fails as a call-level failure,
\* the lookup error (UnknownUnit) when its tensors can be deserialized and
\* the codec error when one cannot; it submits nothing to any pool, leaves
\* the loop serving (the step in which it fails changes no other call and no
\* pool), and does not prevent any other call in flight from completing.
C5_UnknownUidFailsLocally ==
    []C5_Fails /\ [][C5_FailureIsLocal]_vars /\ C5_OthersComplete

\* a stream under an unregistered uid has failed at the end of its stream
\* while a backward call is still waiting for its future
C5_Witness ==
    /\ call[1].kind = "forward_stream" /\ call[1].pc = "failed"
    /\ call[1].error = "KeyError" /\ Len(call[1].requests) = 1
    /\ call[1].unpacker_uid = "ghost"
    /\ call[2].kind = "backward" /\ call[2].pc = "await"
    /\ call[2].fut.state = "PENDING"
    /\ runpc = "serving"

\* C6: a streamed call whose requests name two different uids fails with
\* the assertion error (ProtocolViolation) at the first request whose uid
\* differs from the first request's; it submits nothing and yields nothing.
C6_UidMismatchFails ==
    \A c \in Calls :
        LET rs == call[c].requests
            differing == {i \in DOMAIN rs : rs[i].uid # rs[1].uid}
        IN  (Streamed(call[c].kind) /\ differing # {}) =>
                /\ call[c].pc = "failed" /\ call[c].error = "AssertionError"
                /\ differing = {Len(rs)}
                /\ Submissions(c) = {}
                /\ call[c].resp = <<>>

C6_Witness ==
    \E c \in Calls :
        /\ call[c].kind = "backward_stream"
        /\ Len(call[c].requests) = 3
        /\ call[c].requests[1].uid = "e0" /\ call[c].requests[2].uid = "e0"
        /\ call[c].requests[3].uid = "e1"
        /\ call[c].requests[1].tensors = <<W1>>
        /\ call[c].pc = "failed" /\ call[c].error = "AssertionError"

----------------------------------------------------------------------------
(* Concurrency *)

\* the response a forward call to uid owes for the values it sent
OwnForwardResponse(uid, values) ==
    ExpertResponse(process_outputs(TaskResult(<<uid, "forward">>, values),
                                   Registry[uid].outputs_schema))

\* calls c and d are unary forward calls to two different registered uids,
\* both past their dispatch
ForwardPair(c, d) ==
    /\ c # d
    /\ call[c].kind = "forward" /\ call[d].kind = "forward"
    /\ call[c].pc \in {"await", "done"} /\ call[d].pc \in {"await", "done"}
    /\ call[c].requests[1].uid # call[d].requests[1].uid

C7_NoCrossTalk ==
    \A c, d \in Calls :
        ForwardPair(c, d) =>
            LET uid == call[c].requests[1].uid
            IN  /\ Submissions(c) = {<<<<uid, "forward">>, 1>>}
                /\ pools[<<uid, "forward">>][1].args = SentValues(c)
                /\ call[c].pc = "done" =>
                      call[c].resp = <<OwnForwardResponse(uid, SentValues(c))>>

C7_BothComplete ==
    \A c, d \in Calls :
        ForwardPair(c, d) ~>
            ((call[c].pc = "done" /\ call[d].pc = "done") \/ runpc # "serving")

\* C7: two concurrent forward calls to different registered uids each
\* submit only their own inputs to their own uid's forward pool and return
\* the outputs of their own task, in whatever order the futures resolve, and
\* both complete while the loop keeps serving.
C7_ConcurrentForwardsIndependent == []C7_NoCrossTalk /\ C7_BothComplete

\* the later call's future resolved first and it has returned
C7_Witness ==
    /\ ForwardPair(1, 2)
    /\ call[1].pc = "await" /\ call[1].fut.state = "PENDING"
    /\ call[1].requests[1].tensors = <<W1>>
    /\ call[2].pc = "done"
    /\ call[2].requests[1].tensors = <<W2, W1>>

----------------------------------------------------------------------------
(* Streams *)

\* the fragment size cap of the streamed procedures
Cap == DEFAULT_MAX_MSG_SIZE \div 2

\* the serialized outputs of a call whose future has resolved
SerializedOutputs(st) ==
    process_outputs(st.fut.result, SchemaOf(st.kind, Registry[CallUid(st)]))

\* <<i, j>> for fragment j of tensor i, tensors ascending, fragments ascending
RECURSIVE PartOrder(_, _)
PartOrder(tensors, i) ==
    IF i > Len(tensors)
    THEN <<>>
    ELSE [j \in 1..Len(split_for_streaming(tensors[i], Cap)) |-> <<i, j>>]
            \o PartOrder(tensors, i + 1)

\* C8: every response of a streamed call carries exactly one fragment, and
\* the responses follow the ascending (output tensor, fragment) order with
\* none left out, repeated or out of place.
C8_FragmentsInOrder ==
    \A c \in Calls :
        (Streamed(call[c].kind) /\ call[c].pc \in {"emit", "done"}) =>
            LET tensors == SerializedOutputs(call[c])
                order == PartOrder(tensors, 1)
                resp == call[c].resp
            IN  /\ Len(resp) <= Len(order)
                /\ call[c].pc = "done" => Len(resp) = Len(order)
                /\ \A k \in DOMAIN resp :
                      resp[k].tensors =
                          <<split_for_streaming(tensors[order[k][1]], Cap)[order[k][2]]>>

C8_Witness ==
    \E c \in Calls :
        /\ call[c].kind = "forward_stream" /\ call[c].pc = "done"
        /\ Len(SerializedOutputs(call[c])) = 2
        /\ Len(call[c].resp) = 3
        /\ call[c].resp[2].tensors[1].dtype = ""
        /\ call[c].resp[3].tensors[1].compression = "FLOAT16"

\* hivemind.utils.grpc.combine_from_streaming over the parts of a streamed
\* response: a part with a dtype starts a tensor, the others extend its buffer
RECURSIVE Reassemble(_)
Reassemble(parts) ==
    IF parts = <<>>
    THEN <<>>
    ELSE LET front == Reassemble(SubSeq(parts, 1, Len(parts) - 1))
             last == parts[Len(parts)]
         IN  IF last.dtype # ""
             THEN Append(front, last)
             ELSE [front EXCEPT ![Len(front)].buffer = @ \o last.buffer]

\* the tensors of a completed call's response, as the caller reads them
ResponseTensors(st) ==
    IF Streamed(st.kind)
    THEN LET ts == Reassemble([k \in DOMAIN st.resp |-> st.resp[k].tensors[1]])
         IN  [i \in DOMAIN ts |-> [ts[i] EXCEPT !.chunks = 0]]
    ELSE st.resp[1].tensors

Direction(kind) == IF kind \in {"forward", "forward_stream"} THEN "forward" ELSE "backward"

\* the requests of a streamed call all name one registered uid
OneRegisteredUid(st) ==
    /\ st.requests # <<>>
    /\ st.requests[1].uid \in Registered
    /\ \A i \in DOMAIN st.requests : st.requests[i].uid = st.requests[1].uid

\* d is the unary call given the whole input of streamed call c in one request
UnaryTwin(c, d) ==
    /\ ~Streamed(call[d].kind) /\ call[d].kind # "info" /\ call[d].pc # "idle"
    /\ Direction(call[d].kind) = Direction(call[c].kind)
    /\ call[d].requests[1].uid = call[c].requests[1].uid
    /\ call[d].requests[1].tensors = SentTensors(c)

\* the tensors of the response of the unary call to uid, in the given
\* direction, whose request holds tensors of the given values
UnaryResponseTensors(uid, direction, values) ==
    process_outputs(TaskResult(<<uid, direction>>, values),
                    IF direction = "forward" THEN Registry[uid].outputs_schema
                    ELSE Registry[uid].grad_inputs_schema)

\* C9: a streamed call whose requests all carry the same registered uid
\* ends as the unary call given the concatenation of their tensor lists in
\* one request: the same input tuple, in the same order, to the same pool,
\* and a response that reassembles to the unary response.
C9_StreamEqualsUnary ==
    \A c \in Calls :
        (Streamed(call[c].kind) /\ OneRegisteredUid(call[c]) /\ Dispatched(call[c])) =>
            LET uid == call[c].requests[1].uid
                pool == <<uid, Direction(call[c].kind)>>
            IN  /\ IF \E i \in DOMAIN SentTensors(c) : Malformed(SentTensors(c)[i])
                   THEN call[c].pc = "failed" /\ call[c].error = "CodecError"
                   ELSE /\ call[c].pc \in {"await", "emit", "done"}
                        /\ \E i \in DOMAIN pools[pool] :
                              /\ Submissions(c) = {<<pool, i>>}
                              /\ pools[pool][i].args = SentValues(c)
                        /\ call[c].pc = "done" =>
                              ResponseTensors(call[c]) =
                                  UnaryResponseTensors(uid, Direction(call[c].kind), SentValues(c))
                /\ \A d \in Calls \ {c} :
                      UnaryTwin(c, d) =>
                          /\ call[d].pc = "failed" <=> call[c].pc = "failed"
                          /\ call[d].pc = "failed" => call[d].error = call[c].error
                          /\ \A x \in Submissions(c), y \in Submissions(d) :
                                /\ x[1] = y[1]
                                /\ pools[x[1]][x[2]].args = pools[y[1]][y[2]].args
                          /\ (call[c].pc = "done" /\ call[d].pc = "done") =>
                                ResponseTensors(call[c]) = ResponseTensors(call[d])

C9_Witness ==
    /\ call[1].kind = "forward_stream" /\ call[1].pc = "done"
    /\ call[1].requests = <<[uid |-> "e1", tensors |-> <<W2>>],
                            [uid |-> "e1", tensors |-> <<W1>>]>>
    /\ UnaryTwin(1, 2) /\ call[2].pc = "done"
    /\ Len(call[1].resp) = 3
    /\ Len(call[2].resp[1].tensors) = 2

\* the compression policies a call's outputs are to be serialized under
Policies(uid, direction) ==
    LET flat == nested_flatten(IF direction = "forward"
                               THEN Registry[uid].outputs_schema
                               ELSE Registry[uid].grad_inputs_schema)
    IN  [i \in DOMAIN flat |-> flat[i].compression]

\* C10: a backward or backward_stream call submits only to the backward pool
\* of its uid and, once complete, has made exactly one submission and has
\* its outputs paired with the gradient-input schema; a forward or
\* forward_stream call submits only to the forward pool of its uid and has
\* its outputs paired with the output schema.
C10_DirectionRespected ==
    \A c \in Calls :
        (call[c].kind \notin {"none", "info"}) =>
            LET dir == Direction(call[c].kind)
            IN  /\ \A x \in Submissions(c) : x[1] = <<CallUid(call[c]), dir>>
                /\ call[c].pc = "done" =>
                      LET ts == ResponseTensors(call[c])
                          ps == Policies(CallUid(call[c]), dir)
                      IN  /\ Cardinality(Submissions(c)) = 1
                          /\ Len(ts) = Min(Len(SentTensors(c)), Len(ps))
                          /\ \A i \in DOMAIN ts : ts[i].compression = ps[i]

C10_Witness ==
    /\ call[1].kind = "backward_stream" /\ call[1].pc = "done"
    /\ call[1].unpacker_uid = "e0" /\ Len(call[1].requests) = 2
    /\ Len(ResponseTensors(call[1])) = 2
    /\ call[2].kind = "backward" /\ call[2].pc = "done"
    /\ call[2].requests[1].uid = "e1"
    /\ Len(pools[<<"e0", "backward">>]) = 1 /\ Len(pools[<<"e1", "backward">>]) = 1

----------------------------------------------------------------------------
(* Failures of one call *)

PerCallErrors == {"KeyError", "AssertionError", "CodecError"}

\* the tensors the response of a call to uid in the given direction holds
\* when the call is alone on the loop
OwnResponseTensors(st, c) ==
    UnaryResponseTensors(CallUid(st), Direction(st.kind), SentValues(c))

\* a failed call has one of the per-call errors; a call that has returned
\* returned what it returns alone, whatever became of the other calls
C11_ResultsUnaffected ==
    \A c \in Calls :
        /\ call[c].pc = "failed" <=> call[c].error # None
        /\ call[c].pc = "failed" => call[c].error \in PerCallErrors
        /\ (call[c].pc = "done" /\ call[c].kind # "info") =>
              ResponseTensors(call[c]) = OwnResponseTensors(call[c], c)

\* the step in which call c fails, and every step after it
C11_FailureStep ==
    \A c \in Calls :
        /\ (call[c].pc # "failed" /\ call'[c].pc = "failed") =>
              /\ runpc = "serving" /\ runpc' = "serving"
              /\ ready' = ready /\ readySets' = readySets
              /\ pools' = pools
              /\ \A d \in Calls \ {c} : call'[d] = call[d]
        /\ call[c].pc = "failed" => call'[c] = call[c]

\* C11: when a call fails with a per-call error (the lookup error, the
\* assertion error or the codec error) only that call's task fails, and it
\* stays failed: the step leaves the loop serving, the readiness future and
\* the number of writes to it as they were, and every other call and every
\* pool unchanged; every call that returns, returns the response it owes
\* for its own inputs.
C11_PerCallErrorsAreLocal == []C11_ResultsUnaffected /\ [][C11_FailureStep]_vars

\* a stream failed on its second request while a backward call was waiting
\* for its future, which has since resolved
C11_Witness ==
    /\ call[1].kind = "forward_stream" /\ call[1].pc = "failed"
    /\ call[1].error = "AssertionError" /\ Len(call[1].requests) = 2
    /\ call[2].kind = "backward" /\ call[2].pc = "await"
    /\ call[2].fut.state = "FINISHED"
    /\ runpc = "serving" /\ ready.state = "RESULT"

----------------------------------------------------------------------------
(* Stalled calls *)

\* all the requests of call c have arrived and its future has resolved, or
\* it is part-way through its response
CanGoOn(c) ==
    \/ call[c].pc = "await" /\ call[c].fut.state = "FINISHED"
    \/ call[c].pc = "emit"

\* C12: a call that waits for ever for its next request or for its future
\* does not hold the loop: with the loop scheduled fairly, and nothing
\* obliging the peers to send or the pools to resolve, every call whose
\* requests have all arrived and whose future has resolved goes on to
\* return its whole response (unless the process is interrupted).
C12_StalledCallDoesNotBlock ==
    \A c \in Calls :
        CanGoOn(c) ~> (call[c].pc = "done" \/ runpc # "serving")

\* the earlier call still waits for the rest of its stream, the later one
\* has yielded both parts of its response
C12_Witness ==
    /\ call[1].kind = "backward_stream" /\ call[1].pc = "gather"
    /\ call[2].kind = "forward_stream" /\ call[2].pc = "done"
    /\ Len(call[2].resp) = 2
    /\ budget = 0

----------------------------------------------------------------------------
(* Fragments *)

\* the parts call c has yielded so far, in the order it yielded them
EmittedParts(c) == [k \in DOMAIN call[c].resp |-> call[c].resp[k].tensors[1]]

\* C13: every part a streamed call yields holds at most Cap elements of
\* buffer (the transport's maximum message size halved), and once the call
\* has returned, joining the buffers of the parts of each output tensor in
\* the order they were yielded gives back the buffer of that serialized
\* tensor, for every serialized output tensor and nothing else.
C13_FragmentsFitAndReassemble ==
    \A c \in Calls :
        (Streamed(call[c].kind) /\ call[c].pc \in {"emit", "done"}) =>
            LET tensors == SerializedOutputs(call[c])
                whole == Reassemble(EmittedParts(c))
            IN  /\ \A k \in DOMAIN call[c].resp :
                      Len(EmittedParts(c)[k].buffer) <= Cap
                /\ Len(whole) <= Len(tensors)
                /\ call[c].pc = "done" =>
                      /\ Len(whole) = Len(tensors)
                      /\ \A i \in DOMAIN tensors : whole[i].buffer = tensors[i].buffer

\* a serialized output of two elements came back as two parts of one each
C13_Witness ==
    \E c \in Calls :
        /\ call[c].kind = "backward_stream" /\ call[c].pc = "done"
        /\ call[c].unpacker_uid = "e1"
        /\ SerializedOutputs(call[c]) = <<serialize_torch_tensor(<<14, 21>>, "NONE")>>
        /\ Len(call[c].resp) = 2
        /\ call[c].resp[1].tensors[1].buffer = <<14>>
        /\ call[c].resp[2].tensors[1].buffer = <<21>>

----------------------------------------------------------------------------
(* Interrupt *)

\* an interrupted run has returned: the future holds the success written
\* before the loop started, written once, and no error
C14_Terminated ==
    (runpc = "interrupted" /\ registered) =>
        /\ ready = [state |-> "RESULT", value |-> None]
        /\ readySets = 1

\* the only step out of serving is the interrupt, it writes nothing to the
\* readiness future, and nothing is written after it
C14_InterruptStep ==
    /\ (runpc = "serving" /\ runpc' # "serving") =>
          /\ runpc' = "interrupted"
          /\ ready' = ready /\ readySets' = readySets
    /\ runpc = "interrupted" =>
          /\ runpc' = "interrupted"
          /\ ready' = ready /\ readySets' = readySets

\* C14: a process interrupted while serving goes to interrupted (TERMINATED)
\* and run returns without another write to the readiness future: its value
\* after the interrupt is its value before, the success, never an error.
C14_InterruptLeavesReadiness == []C14_Terminated /\ [][C14_InterruptStep]_vars

\* interrupted while a call was waiting for its future
C14_Witness ==
    /\ runpc = "interrupted" /\ registered
    /\ call[1].kind = "forward" /\ call[1].pc = "await"
    /\ call[2].pc = "gather"
    /\ ready.state = "RESULT"

----------------------------------------------------------------------------
(* Laziness of the response *)

\* the parts call c has produced so far: the list output_split
ProducedParts(c) == call[c].output_split

\* C15: in a streamed call whose response has more than one part, the parts
\* are yielded as they are produced, not after all of them have been
\* buffered: when the first response has been yielded and no other, no part
\* of a later output tensor has been produced yet.
C15_EmittedAsProduced ==
    \A c \in Calls :
        (Streamed(call[c].kind) /\ call[c].pc = "emit" /\ Len(call[c].resp) = 1) =>
            LET tensors == SerializedOutputs(call[c])
            IN  Len(ProducedParts(c)) <= Len(split_for_streaming(tensors[1], Cap))

----------------------------------------------------------------------------
(* Order of the steps of a streamed call *)

\* a streamed call that is gathering, or has failed, has submitted nothing
\* and has no error from the lookup while it gathers; one that is past its
\* dispatch has submitted once; one that has yielded has submitted
C16_SubmitsOnceAfterGather ==
    \A c \in Calls :
        Streamed(call[c].kind) =>
            /\ call[c].pc \in {"gather", "failed"} => Submissions(c) = {}
            /\ call[c].pc \in {"await", "emit", "done"} => Cardinality(Submissions(c)) = 1
            /\ call[c].resp # <<>> => Cardinality(Submissions(c)) = 1

\* the step that looks the uid up (and fails on it) or submits is a step of
\* a gathering call that takes no request: the end of its stream
C16_LookupStep ==
    \A c \in Calls :
        (/\ Streamed(call'[c].kind)
         /\ \/ Cardinality(Submissions(c)') > Cardinality(Submissions(c))
            \/ call[c].error # "KeyError" /\ call'[c].error = "KeyError") =>
            /\ call[c].pc = "gather"
            /\ call'[c].requests = call[c].requests
            /\ call[c].resp = <<>>

\* C16: a streamed call looks its uid up and submits to the pool only after
\* its request stream has ended, submits exactly once, and has submitted
\* before it yields its first response; a call that fails while gathering,
\* or whose stream never ends, submits nothing.
C16_StreamDispatchOrder == []C16_SubmitsOnceAfterGather /\ [][C16_LookupStep]_vars

\* a stream still gathering under an unregistered uid, not failed and with
\* nothing submitted, next to a stream that submitted once and has returned
C16_Witness ==
    /\ call[1].kind = "forward_stream" /\ call[1].pc = "gather"
    /\ call[1].unpacker_uid = "ghost" /\ Len(call[1].requests) = 1
    /\ Submissions(1) = {}
    /\ call[2].kind = "backward_stream" /\ call[2].pc = "done"
    /\ Len(call[2].requests) = 2 /\ call[2].resp # <<>>
    /\ Submissions(2) = {<<<<"e1", "backward">>, 1>>}

----------------------------------------------------------------------------
(* Empty streams *)

\* C17: a streamed call whose request stream ends without a request, so
\* that its unpacker never takes a uid, fails with the assertion error
\* (ProtocolViolation); it is not served by any expert and submits nothing.
C17_EmptyStreamIsProtocolViolation ==
    \A c \in Calls :
        (Streamed(call[c].kind) /\ call[c].requests = <<>> /\ Dispatched(call[c])) =>
            /\ call[c].pc = "failed" /\ call[c].error = "AssertionError"
            /\ call[c].unpacker_uid = None
            /\ Submissions(c) = {}

----------------------------------------------------------------------------
(* Outputs and schema *)

\* C18: the response of every completed unary forward or backward call
\* holds one wire tensor for each tensor of the tuple its future resolved
\* to, in the same order, the tensor at position i serialized under the
\* compression of position i of the flattened schema; no output tensor is
\* left out, also when the tuple is longer than the flattened schema.
C18_NoOutputDropped ==
    \A c \in Calls :
        (call[c].kind \in {"forward", "backward"} /\ call[c].pc = "done") =>
            LET outputs == call[c].fut.result
                flat == nested_flatten(SchemaOf(call[c].kind, Registry[CallUid(call[c])]))
                tensors == call[c].resp[1].tensors
            IN  /\ Len(call[c].resp) = 1
                /\ Len(tensors) = Len(outputs)
                /\ \A i \in DOMAIN tensors :
                      i <= Len(flat) =>
                          tensors[i] = serialize_torch_tensor(outputs[i], flat[i].compression)

----------------------------------------------------------------------------
(* The unpacker of a stream *)

\* the uid of a stream's unpacker is unset until its first request and is
\* that request's uid from then on; a stream fails the assertion only when
\* two of its own requests disagree
C19_UidOfFirstRequest ==
    \A c \in Calls :
        Streamed(call[c].kind) =>
            /\ call[c].unpacker_uid =
                  IF call[c].requests = <<>> THEN None ELSE call[c].requests[1].uid
            /\ call[c].error = "AssertionError" =>
                  \E i \in DOMAIN call[c].requests :
                      call[c].requests[i].uid # call[c].requests[1].uid

\* once set the uid does not change, and a step in which another call takes
\* a request changes neither the uid nor the state of this one
C19_UidStep ==
    \A c \in Calls :
        /\ call[c].unpacker_uid # None => call'[c].unpacker_uid = call[c].unpacker_uid
        /\ \A d \in Calls \ {c} :
              call'[d].requests # call[d].requests => call'[c] = call[c]

\* C19: every streamed call has an unpacker of its own: its uid goes from
\* unset to the uid of the call's first request, once, and never changes;
\* the requests of one call never change the uid of another, so two streams
\* gathered at the same time under different uids never fail each other's
\* uid assertion, however their requests interleave.
C19_UnpackerPerCall == []C19_UidOfFirstRequest /\ [][C19_UidStep]_vars

\* two streams under different uids, both past their first request
C19_Witness ==
    /\ call[1].kind = "forward_stream" /\ call[1].pc = "gather"
    /\ call[1].unpacker_uid = "e0" /\ Len(call[1].requests) = 2
    /\ call[2].kind = "backward_stream" /\ call[2].pc = "await"
    /\ call[2].unpacker_uid = "e1" /\ Len(call[2].requests) = 1

----------------------------------------------------------------------------
(* The registry *)

\* C20: no step of the handler changes self.experts: after any calls,
\* completed or failed, and any step of run, the registered uids and the
\* pools and schemas of each are those handed to __init__.
C20_RegistryUnchanged ==
    /\ DOMAIN experts = Registered
    /\ \A u \in Registered :
          /\ experts[u].forward_pool = Registry[u].forward_pool
          /\ experts[u].backward_pool = Registry[u].backward_pool
          /\ experts[u].outputs_schema = Registry[u].outputs_schema
          /\ experts[u].grad_inputs_schema = Registry[u].grad_inputs_schema

\* an info call for an unregistered uid has failed, a stream has been
\* served, and the process has been interrupted
C20_Witness ==
    /\ call[1].kind = "info" /\ call[1].pc = "failed"
    /\ call[2].kind = "backward_stream" /\ call[2].pc = "done"
    /\ Len(pools[<<"e0", "backward">>]) = 1
    /\ runpc = "interrupted"
    /\ experts = Registry

=============================================================================
